---------------------------- MODULE Spec2Model ----------------------------
(***************************************************************************)
(* Verification model of the randomize crate: the Pcg32x32 generator       *)
(* (src/src/pcg32_32.rs) and the Gen32 derived operations                  *)
(* (src/src/gen32.rs).                                                     *)
(*                                                                         *)
(* An unsigned machine word is a record [bits, hi, lo]: its width and its  *)
(* two halves, each below 2^(bits/2), so that the 32-bit arithmetic of the *)
(* code is computed exactly with numbers that fit TLC's integers.  A u32   *)
(* has bits = 32.  Every operator takes the width from its arguments, so   *)
(* the same definitions also run on narrower words.  A u64 product is the  *)
(* pair of its high and low words.                                         *)
(*                                                                         *)
(* Rust evaluates an operand once, before it is used.  An operator that    *)
(* uses an operand several times therefore takes its value first, with     *)
(*     CHOOSE value \in { body : a \in { operand } } : TRUE                *)
(* which is body with a standing for the operand's value.                  *)
(***************************************************************************)
EXTENDS Integers, Sequences, FiniteSets, TLC

\* Width of u32, in bits.
U32_BITS == 32

---------------------------------------------------------------------------
(* Word arithmetic                                                         *)

\* 2^(bits/2): the base of the two halves of a word.
Half(bits) == 2 ^ (bits \div 2)

\* The word of the given width holding hi * 2^(bits/2) + lo.
Word(bits, hi, lo) == [bits |-> bits, hi |-> hi, lo |-> lo]

\* The word holding the natural number v modulo 2^bits.
FromNat(v, bits) ==
    Word(bits, (v \div Half(bits)) % Half(bits), v % Half(bits))

\* The natural number a word holds (used on words below 2^31 only).
ToNat(x) == x.hi * Half(x.bits) + x.lo

\* A u32 written as the two halves of its hexadecimal form.
U32(hi, lo) == Word(U32_BITS, hi, lo)

Zero(bits) == Word(bits, 0, 0)

One(bits) == Word(bits, 0, 1)

\* The largest word: u32::MAX for bits = 32.
MaxWord(bits) == Word(bits, Half(bits) - 1, Half(bits) - 1)

IsZero(x) == x.hi = 0 /\ x.lo = 0

\* All words of a width (for narrow words).
Words(bits) ==
    { Word(bits, h, l) : h \in 0 .. (Half(bits) - 1), l \in 0 .. (Half(bits) - 1) }

\* x < y, unsigned.
Less(x, y) ==
    CHOOSE value \in
        { (a.hi < b.hi \/ (a.hi = b.hi /\ a.lo < b.lo)) :
            a \in { x }, b \in { y } } : TRUE

\* x + y modulo 2^bits.
wrapping_add(x, y) ==
    CHOOSE value \in
        { (LET H == Half(a.bits)
               l == a.lo + b.lo
           IN  Word(a.bits, (a.hi + b.hi + (l \div H)) % H, l % H)) :
            a \in { x }, b \in { y } } : TRUE

\* x - y modulo 2^bits.
wrapping_sub(x, y) ==
    CHOOSE value \in
        { (LET H == Half(a.bits)
               l == a.lo - b.lo
           IN  Word(a.bits,
                    (a.hi - b.hi - (IF l < 0 THEN 1 ELSE 0)) % H, l % H)) :
            a \in { x }, b \in { y } } : TRUE

wrapping_neg(x) == wrapping_sub(Zero(x.bits), x)

\* The product a * b of two halves, as << high half, low half >>.  The
\* product of two 16-bit halves does not fit TLC's integers, so b is
\* split at 2^8 when the halves are that wide.
HalfMul(a, b, H) ==
    IF H <= 2 ^ 15 THEN << (a * b) \div H, (a * b) % H >>
    ELSE LET p0 == a * (b % 256)
             p1 == a * (b \div 256)
             G  == H \div 256
             t  == (p1 % G) * 256 + p0
         IN  << (p1 \div G) + (t \div H), t % H >>

\* The full product x * y as a double word [high, low]
\* (`(b as u64).wrapping_mul(x)`, which cannot wrap).
widening_mul(x, y) ==
    CHOOSE value \in
        { (LET H  == Half(a.bits)
               ll == HalfMul(a.lo, b.lo, H)
               lh == HalfMul(a.lo, b.hi, H)
               hl == HalfMul(a.hi, b.lo, H)
               hh == HalfMul(a.hi, b.hi, H)
               d1 == ll[1] + lh[2] + hl[2]
               d2 == (d1 \div H) + lh[1] + hl[1] + hh[2]
               d3 == (d2 \div H) + hh[1]
           IN  [high |-> Word(a.bits, d3 % H, d2 % H),
                low  |-> Word(a.bits, d1 % H, ll[2])]) :
            a \in { x }, b \in { y } } : TRUE

\* x * y modulo 2^bits.
wrapping_mul(x, y) == widening_mul(x, y).low

\* True when x * y does not fit the width (`*` under overflow checks).
MulOverflows(x, y) == ~ IsZero(widening_mul(x, y).high)

\* Bitwise exclusive or of two naturals below 2^n.
RECURSIVE XorNat(_, _, _)
XorNat(a, b, n) ==
    IF n = 0 THEN 0
    ELSE ((a + b) % 2) + 2 * XorNat(a \div 2, b \div 2, n - 1)

BitXor(x, y) ==
    CHOOSE value \in
        { (Word(a.bits, XorNat(a.hi, b.hi, a.bits \div 2),
                        XorNat(a.lo, b.lo, a.bits \div 2))) :
            a \in { x }, b \in { y } } : TRUE

\* x >> s, logical, for 0 <= s < bits.
ShiftRight(x, s) ==
    CHOOSE value \in
        { (LET h == a.bits \div 2
           IN  IF n >= h THEN Word(a.bits, 0, a.hi \div (2 ^ (n - h)))
               ELSE Word(a.bits, a.hi \div (2 ^ n),
                         (a.lo \div (2 ^ n))
                             + (a.hi % (2 ^ n)) * (2 ^ (h - n)))) :
            a \in { x }, n \in { s } } : TRUE

\* Bit k of x (bit 0 is the least significant).
BitAt(x, k) == ShiftRight(x, k).lo % 2

\* One step of binary long division: the remainder r (below y) takes in the
\* next bit of the dividend.  2r + bit may pass 2^bits, but then it is
\* reduced by y, and the wrapped difference is the true one.
RemStep(r, bit, y) ==
    CHOOSE value \in
        { (IF BitAt(r, r.bits - 1) = 1 \/ ~ Less(r2, y)
           THEN wrapping_sub(r2, y) ELSE r2) :
            r2 \in { wrapping_add(wrapping_add(r, r),
                                  Word(r.bits, 0, bit)) } } : TRUE

\* The remainder of the top bits k .. bits-1 of x by y, given that of the
\* bits above k.
RECURSIVE RemBits(_, _, _, _)
RemBits(x, y, k, r) ==
    IF k < 0 THEN r
    ELSE CHOOSE q \in { RemBits(x, y, k - 1, r1) :
                        r1 \in { RemStep(r, BitAt(x, k), y) } } : TRUE

\* x % y for y # 0.
Rem(x, y) == RemBits(x, y, x.bits - 1, Zero(x.bits))

---------------------------------------------------------------------------
(* Pcg32x32: the core generator                                            *)

\* 0xf13283ad
PCG_MULTIPLIER_32 == U32(61746, 33709)

\* The multiplier of the output permutation, 277803737u32.
RXS_M_XS_MULTIPLIER == FromNat(277803737, U32_BITS)

\* A faulty LCG advance, which leaves the increment out.
AdvanceWithoutInc(state, inc) == wrapping_mul(state, PCG_MULTIPLIER_32)

\* The LCG advance: state * PCG_MULTIPLIER_32 + inc, wrapping.
pcg_core_state32(state, inc) ==
    wrapping_add(wrapping_mul(state, PCG_MULTIPLIER_32), inc)

\* The random shift of the permutation: state >> (4 + (state >> 28)).
RxsShifted(state) ==
    CHOOSE value \in
        { (ShiftRight(s, 4 + ToNat(ShiftRight(s, 28)))) :
            s \in { state } } : TRUE

\* `$state ^= ($state >> (4 + ($state >> 28))) * 277803737`: the value the
\* macro leaves in the place it was given (here self.state).
RxsMutated(state) ==
    CHOOSE value \in
        { (BitXor(s, wrapping_mul(RxsShifted(s), RXS_M_XS_MULTIPLIER))) :
            s \in { state } } : TRUE

\* The `*` of the macro is the checked multiplication: it panics when the
\* build has overflow checks and the product does not fit a u32.
RxsOverflows(state) == MulOverflows(RxsShifted(state), RXS_M_XS_MULTIPLIER)

\* The value of the macro: `$state ^ ($state >> 22)` on the mutated state.
rxs_m_xs_u32_to_u32(state) ==
    CHOOSE value \in
        { (BitXor(s, ShiftRight(s, 22))) :
            s \in { RxsMutated(state) } } : TRUE

\* One pass of the loop of jump_lcg32_32 (square-and-multiply over the
\* affine map x -> mult * x + inc), on the loop's five variables.
JumpStep(v) ==
    LET odd == v.delta.lo % 2 = 1
    IN  [delta    |-> ShiftRight(v.delta, 1),
         acc_mult |-> IF odd THEN wrapping_mul(v.acc_mult, v.cur_mult)
                      ELSE v.acc_mult,
         acc_plus |-> IF odd
                      THEN wrapping_add(wrapping_mul(v.acc_plus, v.cur_mult),
                                        v.cur_plus)
                      ELSE v.acc_plus,
         cur_plus |-> wrapping_mul(wrapping_add(v.cur_mult, One(v.delta.bits)),
                                   v.cur_plus),
         cur_mult |-> wrapping_mul(v.cur_mult, v.cur_mult)]

\* `while delta > 0 { ... }`
RECURSIVE JumpLoop(_)
JumpLoop(v) ==
    IF IsZero(v.delta) THEN v
    ELSE CHOOSE r \in { JumpLoop(w) : w \in { JumpStep(v) } } : TRUE

jump_lcg32_32(delta, state, mult, inc) ==
    LET n   == state.bits
        end == JumpLoop([delta |-> delta, cur_mult |-> mult, cur_plus |-> inc,
                         acc_mult |-> One(n), acc_plus |-> Zero(n)])
    IN  wrapping_add(wrapping_mul(end.acc_mult, state), end.acc_plus)

\* (inc << 1) | 1
ShlOr1(inc) == wrapping_add(wrapping_add(inc, inc), One(inc.bits))

\* Pcg32x32::seed
seed(seed_value, inc_value) ==
    LET inc == ShlOr1(inc_value)
        s0  == pcg_core_state32(Zero(U32_BITS), inc)
        s1  == wrapping_add(s0, seed_value)
    IN  [state |-> pcg_core_state32(s1, inc), inc |-> inc]

\* Pcg32x32::next_u32: the output, and the generator it leaves.
NextOut(g) == rxs_m_xs_u32_to_u32(g.state)

NextGen(g) ==
    [g EXCEPT !.state = pcg_core_state32(RxsMutated(g.state), g.inc)]

\* Pcg32x32::jump
jump(g, delta) ==
    [g EXCEPT !.state = jump_lcg32_32(delta, g.state, PCG_MULTIPLIER_32, g.inc)]

\* A faulty conversion, which takes the two words in the other order.
FromPairSwapped(pair) == [state |-> pair[2], inc |-> pair[1]]

\* From<[u32; 2]> for Pcg32x32, and From<Pcg32x32> for [u32; 2].
FromPair(pair) == [state |-> pair[1], inc |-> pair[2]]

IntoPair(g) == << g.state, g.inc >>

\* The LCG advance applied n times to a state (outputs discarded).
RECURSIVE StepN(_, _, _)
StepN(state, inc, n) ==
    IF n = 0 THEN state
    ELSE CHOOSE r \in { StepN(s, inc, n - 1) :
                        s \in { pcg_core_state32(state, inc) } } : TRUE

---------------------------------------------------------------------------
(* State                                                                   *)

VARIABLES
    overflow_checks,  \* the build: TRUE when arithmetic overflow panics
    rng,              \* the Pcg32x32 value: [state, inc]
    status,           \* "ok", or the panic that ended the session
    origin,           \* rng as it was constructed
    trace,            \* the calls made on rng since it was constructed
    outs,             \* the words next_u32 has returned since then
    mark,             \* rng as it was before the latest run of jump calls
    restored,         \* << >>, or the generator rebuilt from rng's exported pair
    twin_out,         \* << >>, or the latest word the rebuilt generator returned
    impl,             \* the implementor of Gen32::next_u32 behind the derived calls
    call,             \* the derived operation in progress, with its locals
    nb,               \* << >>, or the frame of the next_bounded call in progress:
                      \* its bound, its threshold once computed, and the
                      \* parity of the words it has rejected
    done,             \* << >>, or the derived operation that returned last
    calls             \* derived operations started so far

pcgVars == << origin, trace, outs, mark, restored, twin_out >>

gen32Vars == << impl, call, nb, done, calls >>

vars == << overflow_checks, rng, status, pcgVars, gen32Vars >>

---------------------------------------------------------------------------
(* Inputs                                                                  *)

\* Most next_u32 calls in one session.
MaxNext == 4

\* Most jump calls in one session.
MaxJumps == 2

\* Longest run of plain LCG steps a jump is compared with.
MaxSteps == 6

\* Half the width of the narrow words, whose every value is tried.
NarrowHalfBits == 2

\* Longest slice given to pick and shuffle.
MaxLen == 3

\* Most derived operations in one session.
MaxCalls == 2

NarrowBits == 2 * NarrowHalfBits

\* u32::MAX - 2 = 2^32 - 3: the jump that goes three steps back.
BackThree == wrapping_sub(Zero(U32_BITS), FromNat(3, U32_BITS))

\* Arguments of Pcg32x32::seed.  The second pair is seed(0x0ba7df8e,
\* 0x0273899d), which gives state 16 and inc 0x04e7133b.
SeedArgs ==
    { << FromNat(12345, U32_BITS), Zero(U32_BITS) >>,
      << U32(2983, 57230), U32(627, 35229) >> }

\* Pairs given to From<[u32; 2]>.
Pairs == { << Zero(U32_BITS), FromNat(2, U32_BITS) >> }

\* Arguments of jump.
Deltas == { FromNat(2, U32_BITS), FromNat(3, U32_BITS), BackThree }

\* Raw words an arbitrary implementor of next_u32 returns: every word of a
\* narrow width, and of the 32-bit words 0, 1, 2, 0x108ef28b, 2^31, u32::MAX.
RawWords(bits) ==
    IF bits # U32_BITS THEN Words(bits)
    ELSE { Zero(bits), One(bits), FromNat(2, bits), U32(4238, 62091),
           U32(32768, 0), MaxWord(bits) }

\* Bounds given to next_bounded: every word of a narrow width, and of the
\* 32-bit words 0, 1, 3, 98684, 2^31 + 1, u32::MAX.
Bounds(bits) ==
    IF bits # U32_BITS THEN Words(bits)
    ELSE { Zero(bits), One(bits), FromNat(3, bits), FromNat(98684, bits),
           U32(32768, 1), MaxWord(bits) }

\* Slices given to pick and shuffle: 1, 2, .., n, and one with an element twice.
Slices ==
    { [i \in 1 .. n |-> i] \o << >> : n \in 0 .. MaxLen } \cup { << 1, 2, 1 >> }

---------------------------------------------------------------------------
(* Pcg32x32 sessions: one generator, driven through its own methods        *)

Panics == { "overflow_panic", "assert_failed", "index_panic" }

\* The record of a derived operation: its name, the bound or slice it was
\* given, and the locals of shuffle.
Call(op, b, buf, count, index, end) ==
    [op |-> op, b |-> b, buf |-> buf, arg |-> buf,
     possibility_count |-> count, this_index |-> index, end |-> end]

Idle == Call("idle", Zero(U32_BITS), << >>, Zero(U32_BITS), 0, 0)

Pcg32x32Impl == [name |-> "Pcg32x32", bits |-> U32_BITS]

NoGen32 ==
    /\ impl = Pcg32x32Impl
    /\ call = Idle
    /\ nb = << >>
    /\ done = << >>
    /\ calls = 0

Fresh(g) ==
    /\ rng = g
    /\ status = "ok"
    /\ origin = g
    /\ trace = << >>
    /\ outs = << >>
    /\ mark = g
    /\ restored = << >>
    /\ twin_out = << >>

\* Pcg32x32::seed(seed, inc)
Seeded == \E a \in SeedArgs : Fresh(seed(a[1], a[2]))

\* Default::default(): seed() of the crate's two default constants, which
\* are declared outside these sources; any seed arguments stand for them.
Defaulted == \E a \in SeedArgs : Fresh(seed(a[1], a[2]))

\* Pcg32x32::from([state, inc])
Converted == \E p \in Pairs : Fresh(FromPair(p))

Constructed == Seeded \/ Defaulted \/ Converted

Init ==
    /\ overflow_checks \in BOOLEAN
    /\ Constructed
    /\ NoGen32

NextCall == [op |-> "next_u32", delta |-> Zero(U32_BITS)]

JumpCall(delta) == [op |-> "jump", delta |-> delta]

Count(op) == Cardinality({ i \in 1 .. Len(trace) : trace[i].op = op })

\* rng.next_u32(); the rebuilt generator, when there is one, is driven
\* through the same call.
NextU32 ==
    /\ status = "ok"
    /\ Count("next_u32") < MaxNext
    /\ IF overflow_checks /\ RxsOverflows(rng.state)
       THEN /\ status' = "overflow_panic"
            /\ UNCHANGED << rng, trace, outs, mark, restored, twin_out >>
       ELSE /\ rng' = NextGen(rng)
            /\ outs' = Append(outs, NextOut(rng))
            /\ trace' = Append(trace, NextCall)
            /\ mark' = rng'
            /\ IF restored = << >>
               THEN UNCHANGED << restored, twin_out >>
               ELSE /\ restored' = << NextGen(restored[1]) >>
                    /\ twin_out' = << NextOut(restored[1]) >>
            /\ UNCHANGED status
    /\ UNCHANGED << overflow_checks, origin, gen32Vars >>

\* rng.jump(delta)
Jump ==
    /\ status = "ok"
    /\ Count("jump") < MaxJumps
    /\ \E delta \in Deltas :
          /\ rng' = jump(rng, delta)
          /\ trace' = Append(trace, JumpCall(delta))
          /\ restored' = IF restored = << >> THEN << >>
                         ELSE << jump(restored[1], delta) >>
    /\ UNCHANGED << overflow_checks, status, origin, outs, mark, twin_out,
                    gen32Vars >>

\* let pair: [u32; 2] = rng.clone().into(); let restored = Pcg32x32::from(pair);
SaveRestore ==
    /\ status = "ok"
    /\ restored = << >>
    /\ restored' = << FromPair(IntoPair(rng)) >>
    /\ UNCHANGED << overflow_checks, rng, status, origin, trace, outs, mark,
                    twin_out, gen32Vars >>

Next == NextU32 \/ Jump \/ SaveRestore

Spec == Init /\ [][Next]_vars

---------------------------------------------------------------------------
(* Gen32: the derived operations, over any implementor of next_u32         *)

\* usize values are integers modulo 2^64, held by their two's-complement
\* representative (-1 is usize::MAX); this is the unsigned a < b.
UsizeLess(a, b) == IF (a < 0) = (b < 0) THEN a < b ELSE b < 0

\* saturating_usize_as_u32, and `buf.len().try_into().unwrap_or(u32::MAX)`:
\* the length as a word, or the largest word when it does not fit.  (No
\* length of the model reaches 2^32.)
saturating_usize_as_u32(len, bits) ==
    IF bits < U32_BITS /\ len >= 2 ^ bits THEN MaxWord(bits)
    ELSE FromNat(len, bits)

\* A next_bounded without its assertion.
NeverZero(b) == FALSE

\* assert!(b != 0, ..) fails.
BoundIsZero(b) == IsZero(b)

\* A next_bounded that rejects nothing.
NoThreshold(b) == Zero(b.bits)

\* `b.wrapping_neg() % b`
RejectThreshold(b) == Rem(wrapping_neg(b), b)

\* A next_bounded that returns the low word of the product.
PassReturningLow(b, threshold, x) ==
    [accept |-> TRUE, high |-> widening_mul(b, x).low, threshold |-> threshold]

\* What next_bounded does with one raw word x: the product, its low word,
\* and then either the return of the high word (accept) or another pass of
\* the while loop.  threshold is << >> on the first word, before
\* `if low < b` has computed it.
Pass(b, threshold, x) ==
    LET mul == widening_mul(b, x)
        low == mul.low
    IN  IF threshold = << >>
        THEN IF Less(low, b)
             THEN LET t == RejectThreshold(b)
                  IN  [accept |-> ~ Less(low, t), high |-> mul.high,
                       threshold |-> << t >>]
             ELSE [accept |-> TRUE, high |-> mul.high, threshold |-> << >>]
        ELSE [accept |-> ~ Less(low, threshold[1]), high |-> mul.high,
              threshold |-> threshold]

\* A faulty swap, which copies one element over the other.
SwapOverwriting(buf, i, j) == [buf EXCEPT ![i + 1] = buf[j + 1]]

\* buf.swap(i, j), on 0-based indexes in range.
Swap(buf, i, j) ==
    [buf EXCEPT ![i + 1] = buf[j + 1], ![j + 1] = buf[i + 1]]

\* What self.next_u32() can do: return x and leave the generator g, or
\* panic.  Pcg32x32 computes it; any other implementor may return any word.
NextU32Outcomes ==
    IF impl.name = "Pcg32x32"
    THEN { [x |-> NextOut(rng), g |-> NextGen(rng),
            panic |-> overflow_checks /\ RxsOverflows(rng.state)] }
    ELSE { [x |-> w, g |-> rng, panic |-> FALSE] : w \in RawWords(impl.bits) }

Returned(c, value, item) ==
    [op |-> c.op, b |-> c.b, arg |-> c.arg, buf |-> c.buf,
     value |-> value, item |-> item]

\* The entry of next_bounded(b), up to its first next_u32 call.
EnterNextBounded(c, b) ==
    IF BoundIsZero(b)
    THEN /\ status' = "assert_failed"
         /\ call' = c
         /\ nb' = << >>
         /\ done' = << >>
    ELSE /\ status' = "ok"
         /\ call' = c
         /\ nb' = << [b |-> b, threshold |-> << >>, draws |-> 0] >>
         /\ done' = << >>

\* The test of shuffle's `while this_index < end`, and what follows it: the
\* next_bounded call of the loop body, or the return.
ShuffleLoop(c) ==
    IF UsizeLess(c.this_index, c.end)
    THEN EnterNextBounded(c, c.possibility_count)
    ELSE /\ status' = "ok"
         /\ call' = Idle
         /\ nb' = << >>
         /\ done' = << Returned(c, Zero(impl.bits), 0) >>

\* The caller's code that follows the return of next_bounded with value v.
AfterNextBounded(v) ==
    CASE call.op = "next_bounded" ->
            /\ status' = "ok"
            /\ call' = Idle
            /\ nb' = << >>
            /\ done' = << Returned(call, v, 0) >>
      [] call.op = "pick" ->
            \* buf[usize::try_from(..).unwrap()]
            IF ToNat(v) >= Len(call.buf)
            THEN /\ status' = "index_panic"
                 /\ UNCHANGED << call, nb, done >>
            ELSE /\ status' = "ok"
                 /\ call' = Idle
                 /\ nb' = << >>
                 /\ done' = << Returned(call, v, call.buf[ToNat(v) + 1]) >>
      [] call.op = "shuffle" ->
            LET i == call.this_index
                j == call.this_index + ToNat(v)
            IN  IF j >= Len(call.buf)
                THEN /\ status' = "index_panic"
                     /\ UNCHANGED << call, nb, done >>
                ELSE IF IsZero(call.possibility_count) /\ overflow_checks
                THEN /\ status' = "overflow_panic"
                     /\ UNCHANGED << call, nb, done >>
                ELSE ShuffleLoop(
                        [call EXCEPT
                            !.buf = Swap(call.buf, i, j),
                            !.possibility_count =
                                wrapping_sub(call.possibility_count,
                                             One(impl.bits)),
                            !.this_index = i + 1])

CanStart == status = "ok" /\ call.op = "idle" /\ calls < MaxCalls

\* self.next_bounded(b)
StartNextBounded ==
    /\ CanStart
    /\ calls' = calls + 1
    /\ \E b \in Bounds(impl.bits) :
          EnterNextBounded(
              Call("next_bounded", b, << >>, Zero(impl.bits), 0, 0), b)
    /\ UNCHANGED << overflow_checks, rng, impl, pcgVars >>

\* self.pick(buf), self.pick_ref(buf), self.pick_mut(buf): the three differ
\* only in how the chosen element is handed back.
StartPick ==
    /\ CanStart
    /\ calls' = calls + 1
    /\ \E buf \in Slices :
          LET end == saturating_usize_as_u32(Len(buf), impl.bits)
          IN  EnterNextBounded(Call("pick", end, buf, end, 0, 0), end)
    /\ UNCHANGED << overflow_checks, rng, impl, pcgVars >>

\* self.shuffle(buf)
StartShuffle ==
    /\ CanStart
    /\ calls' = calls + 1
    /\ \E buf \in Slices :
          LET count == saturating_usize_as_u32(Len(buf), impl.bits)
          IN  \* let end = buf.len() - 1;
              IF Len(buf) = 0 /\ overflow_checks
              THEN /\ status' = "overflow_panic"
                   /\ call' = Call("shuffle", count, buf, count, 0, 0)
                   /\ nb' = << >>
                   /\ done' = << >>
              ELSE ShuffleLoop(
                      Call("shuffle", count, buf, count, 0, Len(buf) - 1))
    /\ UNCHANGED << overflow_checks, rng, impl, pcgVars >>

\* One self.next_u32() of the next_bounded call in progress, and the code
\* that follows it up to the next one.
Draw ==
    /\ status = "ok"
    /\ nb # << >>
    /\ \E o \in NextU32Outcomes :
          IF o.panic
          THEN /\ status' = "overflow_panic"
               /\ UNCHANGED << rng, call, nb, done >>
          ELSE LET p == Pass(nb[1].b, nb[1].threshold, o.x)
               IN  /\ rng' = o.g
                   /\ IF p.accept
                      THEN AfterNextBounded(p.high)
                      ELSE /\ nb' = << [nb[1] EXCEPT
                                          !.threshold = p.threshold,
                                          !.draws = (@ + 1) % 2] >>
                           /\ UNCHANGED << status, call, done >>
    /\ UNCHANGED << overflow_checks, impl, calls, pcgVars >>

\* The generator behind the derived calls: a seeded Pcg32x32, or an
\* arbitrary implementor with narrow or 32-bit words.
AnyImpls ==
    { [name |-> "any", bits |-> n] : n \in { NarrowBits, U32_BITS } }

InitGen32 ==
    /\ overflow_checks \in BOOLEAN
    /\ \/ impl = Pcg32x32Impl /\ Seeded
       \/ impl \in AnyImpls /\ Fresh(FromPair(<< Zero(U32_BITS), One(U32_BITS) >>))
    /\ call = Idle
    /\ nb = << >>
    /\ done = << >>
    /\ calls = 0

NextGen32 == StartNextBounded \/ StartPick \/ StartShuffle \/ Draw

SpecGen32 == InitGen32 /\ [][NextGen32]_vars

InitPcgGen32 == InitGen32 /\ impl = Pcg32x32Impl

\* The caller runs on: an operation in progress takes its next step.
FairSpecGen32 == InitPcgGen32 /\ [][NextGen32]_vars /\ WF_vars(NextGen32)

---------------------------------------------------------------------------
(* Properties of Pcg32x32 sessions                                         *)

\* The deltas of the jump calls that end the trace.
RECURSIVE TrailingJumps(_)
TrailingJumps(t) ==
    IF t = << >> \/ t[Len(t)].op # "jump" THEN << >>
    ELSE Append(TrailingJumps(SubSeq(t, 1, Len(t) - 1)), t[Len(t)].delta)

\* The sum of a sequence of deltas, modulo 2^32.
RECURSIVE SumDeltas(_)
SumDeltas(ds) ==
    IF ds = << >> THEN Zero(U32_BITS)
    ELSE wrapping_add(SumDeltas(SubSeq(ds, 1, Len(ds) - 1)), ds[Len(ds)])

FitsSteps(w) == w.hi = 0 /\ w.lo <= MaxSteps

\* C1: jump(a) followed by jump(b) leaves the generator in the state of one
\* jump((a + b) mod 2^32) from where it started, and, when that count is
\* small enough to be walked, in the state reached by that many plain LCG
\* steps state * 0xf13283ad + inc.  (The increment is never changed.)
C1_JumpConsistency ==
    LET ds    == TrailingJumps(trace)
        total == SumDeltas(ds)
    IN  Len(ds) >= 2 =>
          /\ rng = jump(mark, total)
          /\ FitsSteps(total) =>
                rng.state = StepN(mark.state, mark.inc, ToNat(total))

\* Two jumps whose counts add up without wrapping, compared with the steps.
C1_Witness ==
    LET ds == TrailingJumps(trace)
    IN  /\ Len(ds) = 2
        /\ ds[1].hi = 0 /\ ds[2].hi = 0
        /\ FitsSteps(SumDeltas(ds))
        /\ rng.state # mark.state

\* The session of the scenario: seed(12345, 0), three words, three steps
\* back, one word.
CycleScenario ==
    /\ origin = seed(FromNat(12345, U32_BITS), Zero(U32_BITS))
    /\ trace = << NextCall, NextCall, NextCall, JumpCall(BackThree), NextCall >>

\* C2: after three next_u32 calls and jump(2^32 - 3), the next word is the
\* first of the three.
C2_CycleConsistency == CycleScenario => outs[4] = outs[1]

\* C3: the increment of every generator is odd.
C3_IncOdd == rng.inc.lo % 2 = 1

\* C4: the generator rebuilt from the exported pair equals the original, and
\* driven through the same calls it returns the same words.
C4_RoundTrip ==
    restored # << >> =>
        /\ restored[1] = rng
        /\ twin_out # << >> => twin_out[1] = outs[Len(outs)]

\* A rebuilt generator that has returned a word after some calls.
C4_Witness ==
    /\ restored # << >>
    /\ twin_out # << >>
    /\ Len(outs) >= 2
    /\ rng.state # mark.state \/ Count("jump") > 0

\* C9: jump(k) followed by jump(u32::MAX - k) restores the state.
C9_BackwardJump ==
    LET ds == TrailingJumps(trace)
    IN  (Len(ds) = 2 /\ ds[2] = wrapping_sub(MaxWord(U32_BITS), ds[1]))
            => rng.state = mark.state

---------------------------------------------------------------------------
(* Properties of the derived operations                                    *)

\* C5: the value next_bounded(b) returns is below b, whatever words the
\* generator returns (also when pick makes the call).
C5_BoundRespect ==
    (done # << >> /\ done[1].op \in { "next_bounded", "pick" })
        => Less(done[1].value, done[1].b)

\* A 32-bit next_bounded call that returned a value other than 0.
C5_Witness ==
    /\ done # << >>
    /\ done[1].op = "next_bounded"
    /\ impl.bits = U32_BITS
    /\ ~ IsZero(done[1].value)

\* The operation in progress was given an empty universe.
ZeroUniverse ==
    \/ call.op = "next_bounded" /\ IsZero(call.b)
    \/ call.op \in { "pick", "shuffle" } /\ call.arg = << >>

\* C6: next_bounded(0), pick on an empty slice and shuffle on an empty slice
\* end in a panic, before any word is drawn and without returning: the
\* failure of the bound assertion, or for shuffle in a build with overflow
\* checks the overflow of `buf.len() - 1`.
C6_ZeroBoundFails ==
    ZeroUniverse =>
        /\ nb = << >>
        /\ done = << >>
        /\ \/ status = "assert_failed"
           \/ call.op = "shuffle" /\ overflow_checks /\ status = "overflow_panic"

\* shuffle on an empty slice, failed on the bound assertion.
C6_Witness ==
    /\ call.op = "shuffle"
    /\ call.arg = << >>
    /\ status = "assert_failed"

Occurrences(buf, e) == Cardinality({ i \in 1 .. Len(buf) : buf[i] = e })

SameElements(a, b) ==
    /\ Len(a) = Len(b)
    /\ \A i \in 1 .. Len(a) : Occurrences(a, a[i]) = Occurrences(b, a[i])

\* C7: shuffle swaps in-range positions only, so the slice holds the same
\* elements throughout and when it returns.
C7_ShufflePermutes ==
    /\ call.op = "shuffle" =>
          (status # "index_panic" /\ SameElements(call.arg, call.buf))
    /\ (done # << >> /\ done[1].op = "shuffle") =>
          SameElements(done[1].arg, done[1].buf)

\* A returned shuffle of three elements that changed their order.
C7_Witness ==
    /\ done # << >>
    /\ done[1].op = "shuffle"
    /\ Len(done[1].arg) = 3
    /\ done[1].buf # done[1].arg

\* One pass of next_bounded(b) on every raw word of b's width: the pairs of
\* a word and what the pass does with it.
Passes(b, threshold) ==
    { << x, Pass(b, threshold, x) >> : x \in Words(b.bits) }

\* The raw words for which the pass returns v.
Producing(passes, v) ==
    { p[1] : p \in { q \in passes : q[2].accept /\ q[2].high = v } }

\* C8: over all raw words of the narrow width, each value below b is
\* returned for exactly floor(2^W / b) of them, on the first pass of the
\* loop as on the later ones.
C8_NoModuloBias ==
    (done # << >> /\ done[1].op = "next_bounded" /\ impl.bits = NarrowBits) =>
        LET b     == done[1].b
            n     == (2 ^ NarrowBits) \div ToNat(b)
            first == Passes(b, << >>)
            later == Passes(b, << RejectThreshold(b) >>)
        IN  \A v \in Words(NarrowBits) :
                Less(v, b) =>
                    /\ Cardinality(Producing(first, v)) = n
                    /\ Cardinality(Producing(later, v)) = n

\* A returned narrow next_bounded(3): 3 does not divide 2^W.
C8_Witness ==
    /\ done # << >>
    /\ done[1].op = "next_bounded"
    /\ impl.bits = NarrowBits
    /\ ToNat(done[1].b) = 3

\* C10: a next_bounded call in progress ends after finitely many draws (it
\* returns, or a panic of next_u32 ends it).
C10_Terminates == (nb # << >>) ~> (nb = << >> \/ status \in Panics)

=============================================================================
